---- MODULE Spec2Model ----
(***************************************************************************)
(* Chair counter: the row scanner of src/src/parser.py, the Grid of        *)
(* src/src/grid.py and the Room union-find of src/src/room.py.             *)
(*                                                                         *)
(* Characters are one-character strings, a text is a sequence of           *)
(* characters.  Room objects live in `heap`, a sequence indexed by object  *)
(* identity (creation order); a reference to a Room is its index and 0 is  *)
(* Python's None.  An optional string is <<>> for None and <<s>> for the   *)
(* string s (a sequence of characters), so that "" and None differ.        *)
(***************************************************************************)
EXTENDS Integers, Sequences, FiniteSets, TLC

VARIABLES text, lines, cells, heap, room_counter, current_room, name_buffer,
          x, y, pc, ex, ey, seen_ids, rooms, stderr, call

\* The state of what calls parse: the results of the earlier parse calls of
\* the process, and the command line, input file, standard output and exit
\* status of main; and the nested calls the interpreter still has room
\* for, None when that is more than any chain of the texts at hand.
VARIABLES history, argv_len, file, stdout, exit_code, recursion_left

callerVars == <<history, argv_len, file, stdout, exit_code, recursion_left>>

vars == <<text, lines, cells, heap, room_counter, current_room, name_buffer,
          x, y, pc, ex, ey, seen_ids, rooms, stderr, call, callerVars>>

parseVars == <<text, lines, cells, room_counter, current_room, name_buffer,
               x, y, pc, ex, ey, seen_ids, rooms, stderr>>

----------------------------------------------------------------------------
(* Bounds of the model.                                                    *)

MaxSegs == 4

MaxPlan == 5

MaxCompartments == 3

MaxRooms == 3

----------------------------------------------------------------------------
(* Optional values.                                                        *)

None == 0

NoStr == <<>>

Str(s) == <<s>>

----------------------------------------------------------------------------
(* Character classes.                                                      *)

WALL_CHARS == {"-", "|", "+", "/", "\\"}

CHAIR_CHARS == {"W", "P", "S", "C"}

CHAIR_TYPES == <<"W", "P", "S", "C">>

is_wall_char(char) == char \in WALL_CHARS

----------------------------------------------------------------------------
(* Input texts: concatenations of at most MaxSegs pieces of floor plan.    *)

Segments ==
  { <<" ">>, <<"-", "-", "-">>, <<"W">>, <<"\n">>,
    <<"(", "a", ")">>, <<"(", ")">> }

RECURSIVE Concat(_)
Concat(ss) == IF ss = <<>> THEN <<>> ELSE Head(ss) \o Concat(Tail(ss))

Pieces == UNION { { Concat(ss) : ss \in [1..n -> Segments] } : n \in 0..MaxSegs }

\* Two named boxes side by side that both open into the blank row below
\* (tests/test_edge_cases.py, test_two_named_rooms_merge).
TwoNamedBoxes ==
  <<"(", "a", ")", "W", "|", "(", "b", ")", "W", "\n", "\n">>

\* n one-cell compartments with one W each above a shared corridor named t
\* (tests/test_edge_cases.py, test_twenty_compartments_merge).
RECURSIVE CompartmentRow(_)
CompartmentRow(n) ==
  IF n <= 1 THEN <<"W">> ELSE CompartmentRow(n - 1) \o <<"|", "W">>

Compartments(n) == CompartmentRow(n) \o <<"\n", "(", "t", ")">>

Scenarios == {TwoNamedBoxes} \cup { Compartments(n) : n \in 1..MaxCompartments }

\* Bare floor plans: every text of at most MaxPlan characters over floor,
\* wall, chair and line end.
PlanChars == {" ", "|", "W", "\n"}

Plans == UNION { [1..n -> PlanChars] : n \in 0..MaxPlan }

Inputs == Pieces \cup Plans \cup Scenarios

----------------------------------------------------------------------------
(* Grid.                                                                   *)

\* str.splitlines(): lines end at "\n"; a last line without terminator is
\* kept unless it is empty.
RECURSIVE splitlines_from(_, _, _)
splitlines_from(t, cur, acc) ==
  LET ends == { i \in 1..Len(t) : t[i] = "\n" }
  IN IF t = <<>> THEN (IF cur = <<>> THEN acc ELSE Append(acc, cur))
     ELSE IF ends = {} THEN Append(acc, cur \o t)
     ELSE LET i == CHOOSE e \in ends : \A f \in ends : e <= f
          IN splitlines_from(SubSeq(t, i + 1, Len(t)), <<>>,
                             Append(acc, cur \o SubSeq(t, 1, i - 1)))

splitlines(t) == splitlines_from(t, <<>>, <<>>)

RECURSIVE max_len(_)
max_len(ls) ==
  IF ls = <<>> THEN 0
  ELSE LET m == max_len(Tail(ls))
       IN IF Len(Head(ls)) > m THEN Len(Head(ls)) ELSE m

grid_height(ls) == Len(ls)

\* A variant that never gives a grid less than one column.
grid_width_at_least_one(ls) ==
  IF max_len(ls) > 1 THEN max_len(ls) ELSE 1

grid_width(ls) == IF ls # <<>> THEN max_len(ls) ELSE 0

height == grid_height(lines)

width == grid_width(lines)

empty_cells(ls) ==
  [cy \in 0..(grid_height(ls) - 1) |-> [cx \in 0..(grid_width(ls) - 1) |-> None]]

\* Grid.get_char: a space outside the text, lines[y][x] inside.
\* A variant without the guards against negative coordinates: a negative
\* index counts from the end, as Python indexing does.
get_char_wraps(ls, cx, cy) ==
  LET row == IF cy < 0 THEN cy + Len(ls) ELSE cy
  IN IF row < 0 \/ row >= Len(ls) THEN " "
     ELSE LET col == IF cx < 0 THEN cx + Len(ls[row + 1]) ELSE cx
          IN IF col < 0 \/ col >= Len(ls[row + 1]) THEN " "
             ELSE ls[row + 1][col + 1]

\* grid.py lines 24-34, the module function get_char(lines, x, y).
module_get_char(ls, cx, cy) ==
  IF cy < 0 \/ cy >= Len(ls) \/ cx < 0 \/ cx >= Len(ls[cy + 1]) THEN " "
  ELSE ls[cy + 1][cx + 1]

\* grid.py lines 60-71, Grid.get_char(x, y).
get_char(ls, cx, cy) ==
  IF cy < 0 \/ cy >= Len(ls) THEN " "
  ELSE IF cx < 0 \/ cx >= Len(ls[cy + 1]) THEN " "
  ELSE ls[cy + 1][cx + 1]

is_wall(ls, cx, cy) == get_char(ls, cx, cy) \in WALL_CHARS

get_room(ls, cs, cx, cy) ==
  IF cy < 0 \/ cy >= grid_height(ls) THEN None
  ELSE IF cx < 0 \/ cx >= grid_width(ls) THEN None
  ELSE cs[cy][cx]

set_room(cs, cx, cy, room) == [cs EXCEPT ![cy][cx] = room]

\* A variant that falls back to the upper-left neighbour under a wall.
get_connected_room_above_diagonal(ls, cs, cx, cy) ==
  IF cy <= 0 THEN None
  ELSE IF is_wall(ls, cx, cy - 1) THEN get_room(ls, cs, cx - 1, cy - 1)
  ELSE get_room(ls, cs, cx, cy - 1)

\* A variant that looks above in the first column only.
get_connected_room_above_first_column(ls, cs, cx, cy) ==
  IF cy <= 0 \/ cx > 0 THEN None
  ELSE IF is_wall(ls, cx, cy - 1) THEN None
  ELSE get_room(ls, cs, cx, cy - 1)

get_connected_room_above(ls, cs, cx, cy) ==
  IF cy <= 0 THEN None
  ELSE IF is_wall(ls, cx, cy - 1) THEN None
  ELSE get_room(ls, cs, cx, cy - 1)

----------------------------------------------------------------------------
(* Room.                                                                   *)

new_room(id) ==
  [id |-> id, name |-> NoStr,
   chairs |-> [t \in CHAIR_CHARS |-> 0], merged_into |-> None]

\* Python truthiness of an optional string: None and "" are both false.
truthy(name) == name # NoStr /\ name[1] # <<>>

\* A variant that moves the chairs: other is left with an empty tally.
merge_with_clears_other(h, self, other) ==
  LET sum == [t \in CHAIR_CHARS |-> h[self].chairs[t] + h[other].chairs[t]]
      nm  == IF truthy(h[other].name) /\ ~truthy(h[self].name)
             THEN h[other].name ELSE h[self].name
      h1  == [h EXCEPT ![self].chairs = sum, ![self].name = nm]
  IN [h1 EXCEPT ![other].merged_into = self,
                ![other].chairs = [t \in CHAIR_CHARS |-> 0]]

\* A variant that keeps, per chair type, the larger of the two tallies.
merge_with_keeps_larger(h, self, other) ==
  LET big == [t \in CHAIR_CHARS |->
                IF h[self].chairs[t] >= h[other].chairs[t]
                THEN h[self].chairs[t] ELSE h[other].chairs[t]]
      nm  == IF truthy(h[other].name) /\ ~truthy(h[self].name)
             THEN h[other].name ELSE h[self].name
      h1  == [h EXCEPT ![self].chairs = big, ![self].name = nm]
  IN [h1 EXCEPT ![other].merged_into = self]

\* A variant that sets the forward pointer on self instead of other.
merge_with_links_self(h, self, other) ==
  LET sum == [t \in CHAIR_CHARS |-> h[self].chairs[t] + h[other].chairs[t]]
      nm  == IF truthy(h[other].name) /\ ~truthy(h[self].name)
             THEN h[other].name ELSE h[self].name
      h1  == [h EXCEPT ![self].chairs = sum, ![self].name = nm]
  IN [h1 EXCEPT ![self].merged_into = other]

\* A variant that keeps self's tally instead of adding other's to it.
merge_with_no_sum(h, self, other) ==
  LET nm == IF truthy(h[other].name) /\ ~truthy(h[self].name)
            THEN h[other].name ELSE h[self].name
      h1 == [h EXCEPT ![self].name = nm]
  IN [h1 EXCEPT ![other].merged_into = self]

\* Room.merge_with(self, other): the heap after the call (the call returns self).
merge_with(h, self, other) ==
  LET sum == [t \in CHAIR_CHARS |-> h[self].chairs[t] + h[other].chairs[t]]
      nm  == IF truthy(h[other].name) /\ ~truthy(h[self].name)
             THEN h[other].name ELSE h[self].name
      h1  == [h EXCEPT ![self].chairs = sum, ![self].name = nm]
  IN [h1 EXCEPT ![other].merged_into = self]

\* Room.final(self) with at most `depth` nested calls left: the heap after
\* the call (links compressed), the room returned, and whether the
\* recursion ended (Python raises RecursionError when it does not).
RECURSIVE final_rec(_, _, _)
final_rec(h, self, depth) ==
  IF h[self].merged_into = None THEN [heap |-> h, ret |-> self, ok |-> TRUE]
  ELSE IF depth = 0 THEN [heap |-> h, ret |-> self, ok |-> FALSE]
  ELSE LET sub == final_rec(h, h[self].merged_into, depth - 1)
       IN [heap |-> [sub.heap EXCEPT ![self].merged_into = sub.ret],
           ret  |-> sub.ret,
           ok   |-> sub.ok]

\* A variant that also sets the link of the root it found, to the root.
final_compresses_root(h, self) ==
  LET f == final_rec(h, self, Len(h))
  IN [heap |-> [f.heap EXCEPT ![f.ret].merged_into = f.ret],
      ret |-> f.ret, ok |-> f.ok]

\* A variant that finds the root and compresses nothing.
final_no_compress(h, self) ==
  LET f == final_rec(h, self, Len(h))
  IN [heap |-> h, ret |-> f.ret, ok |-> f.ok]

\* A variant that follows one link only.
final_one_hop(h, self) ==
  IF h[self].merged_into = None THEN [heap |-> h, ret |-> self, ok |-> TRUE]
  ELSE [heap |-> h, ret |-> h[self].merged_into, ok |-> TRUE]

\* The nested calls a final() on heap h can make: a chain has fewer links
\* than there are rooms, and the interpreter may have room for fewer.
call_depth(h) ==
  IF recursion_left = None \/ Len(h) < recursion_left THEN Len(h)
  ELSE recursion_left

final(h, self) == final_rec(h, self, call_depth(h))

----------------------------------------------------------------------------
(* parse: the body of the inner loop, parser.py lines 57-84.               *)

NoCall == [op |-> "none", self |-> None, other |-> None, ret |-> None]

\* A variant that opens a new Room at every non-wall cell.
open_room_always(h, rc, cur) ==
  [heap |-> Append(h, new_room(rc + 1)), room_counter |-> rc + 1,
   current_room |-> Len(h) + 1]

\* Lines 58-60: open a new Room when none is open in this row.
open_room(h, rc, cur) ==
  IF cur = None
  THEN [heap |-> Append(h, new_room(rc + 1)), room_counter |-> rc + 1,
        current_room |-> Len(h) + 1]
  ELSE [heap |-> h, room_counter |-> rc, current_room |-> cur]

\* A variant without the test final_above != final_current.
connect_above_unguarded(h, ls, cs, cx, cy, cur) ==
  LET room_above == get_connected_room_above(ls, cs, cx, cy)
  IN IF room_above = None THEN [heap |-> h, call |-> NoCall, ok |-> TRUE]
     ELSE LET fa == final(h, room_above)
              fc == final(fa.heap, cur)
          IN [heap |-> merge_with(fc.heap, fa.ret, fc.ret),
              call |-> [op |-> "merge_with", self |-> fa.ret,
                        other |-> fc.ret, ret |-> fa.ret],
              ok |-> fa.ok /\ fc.ok]

\* A variant that merges the two rooms themselves, without final().
connect_above_no_final(h, ls, cs, cx, cy, cur) ==
  LET room_above == get_connected_room_above(ls, cs, cx, cy)
  IN IF room_above = None THEN [heap |-> h, call |-> NoCall, ok |-> TRUE]
     ELSE IF room_above # cur
     THEN [heap |-> merge_with(h, room_above, cur),
           call |-> [op |-> "merge_with", self |-> room_above,
                     other |-> cur, ret |-> room_above],
           ok |-> TRUE]
     ELSE [heap |-> h, call |-> NoCall, ok |-> TRUE]

\* A variant in which the current room's root is the survivor.
connect_above_current_survives(h, ls, cs, cx, cy, cur) ==
  LET room_above == get_connected_room_above(ls, cs, cx, cy)
  IN IF room_above = None THEN [heap |-> h, call |-> NoCall, ok |-> TRUE]
     ELSE LET fa == final(h, room_above)
              fc == final(fa.heap, cur)
          IN IF fa.ret # fc.ret
             THEN [heap |-> merge_with(fc.heap, fc.ret, fa.ret),
                   call |-> [op |-> "merge_with", self |-> fc.ret,
                             other |-> fa.ret, ret |-> fc.ret],
                   ok |-> fa.ok /\ fc.ok]
             ELSE [heap |-> fc.heap, call |-> NoCall, ok |-> fa.ok /\ fc.ok]

\* Lines 62-68: union with the room of the cell directly above.
connect_above(h, ls, cs, cx, cy, cur) ==
  LET room_above == get_connected_room_above(ls, cs, cx, cy)
  IN IF room_above = None THEN [heap |-> h, call |-> NoCall, ok |-> TRUE]
     ELSE LET fa == final(h, room_above)
              fc == final(fa.heap, cur)
          IN IF fa.ret # fc.ret
             THEN [heap |-> merge_with(fc.heap, fa.ret, fc.ret),
                   call |-> [op |-> "merge_with", self |-> fa.ret,
                             other |-> fc.ret, ret |-> fa.ret],
                   ok |-> fa.ok /\ fc.ok]
             ELSE [heap |-> fc.heap, call |-> NoCall, ok |-> fa.ok /\ fc.ok]

\* A variant that adds the chair to the current room itself.
count_chair_on_current(h, cur, char) ==
  IF char \in CHAIR_CHARS
  THEN [heap |-> [h EXCEPT ![cur].chairs[char] = @ + 1], ok |-> TRUE]
  ELSE [heap |-> h, ok |-> TRUE]

\* A variant that counts no chair while a name is being captured.
count_chair_outside_capture(h, cur, char) ==
  IF char \in CHAIR_CHARS /\ name_buffer = NoStr
  THEN LET f == final(h, cur)
       IN [heap |-> [f.heap EXCEPT ![f.ret].chairs[char] = @ + 1], ok |-> f.ok]
  ELSE [heap |-> h, ok |-> TRUE]

\* Lines 74-75: a chair is added to the root of the current room.
count_chair(h, cur, char) ==
  IF char \in CHAIR_CHARS
  THEN LET f == final(h, cur)
       IN [heap |-> [f.heap EXCEPT ![f.ret].chairs[char] = @ + 1], ok |-> f.ok]
  ELSE [heap |-> h, ok |-> TRUE]

\* A variant that names the current room itself.
track_name_on_current(h, cur, nb, char) ==
  IF char = "(" THEN [heap |-> h, name_buffer |-> Str(<<>>), ok |-> TRUE]
  ELSE IF char = ")" /\ nb # NoStr
  THEN [heap |-> [h EXCEPT ![cur].name = nb], name_buffer |-> NoStr, ok |-> TRUE]
  ELSE IF nb # NoStr
  THEN [heap |-> h, name_buffer |-> Str(Append(nb[1], char)), ok |-> TRUE]
  ELSE [heap |-> h, name_buffer |-> nb, ok |-> TRUE]

\* A variant that names a room only when it has no name yet.
track_name_keeps_first(h, cur, nb, char) ==
  IF char = "(" THEN [heap |-> h, name_buffer |-> Str(<<>>), ok |-> TRUE]
  ELSE IF char = ")" /\ nb # NoStr
  THEN LET f == final(h, cur)
       IN [heap |-> IF f.heap[f.ret].name = NoStr
                    THEN [f.heap EXCEPT ![f.ret].name = nb] ELSE f.heap,
           name_buffer |-> NoStr, ok |-> f.ok]
  ELSE IF nb # NoStr
  THEN [heap |-> h, name_buffer |-> Str(Append(nb[1], char)), ok |-> TRUE]
  ELSE [heap |-> h, name_buffer |-> nb, ok |-> TRUE]

\* A variant in which ")" assigns a name also when no capture is active.
track_name_closes_always(h, cur, nb, char) ==
  IF char = "(" THEN [heap |-> h, name_buffer |-> Str(<<>>), ok |-> TRUE]
  ELSE IF char = ")"
  THEN LET f == final(h, cur)
       IN [heap |-> [f.heap EXCEPT ![f.ret].name =
                                     IF nb # NoStr THEN nb ELSE Str(<<>>)],
           name_buffer |-> NoStr, ok |-> f.ok]
  ELSE IF nb # NoStr
  THEN [heap |-> h, name_buffer |-> Str(Append(nb[1], char)), ok |-> TRUE]
  ELSE [heap |-> h, name_buffer |-> nb, ok |-> TRUE]

\* Lines 78-84: the (...) pattern.
track_name(h, cur, nb, char) ==
  IF char = "(" THEN [heap |-> h, name_buffer |-> Str(<<>>), ok |-> TRUE]
  ELSE IF char = ")" /\ nb # NoStr
  THEN LET f == final(h, cur)
       IN [heap |-> [f.heap EXCEPT ![f.ret].name = nb],
           name_buffer |-> NoStr, ok |-> f.ok]
  ELSE IF nb # NoStr
  THEN [heap |-> h, name_buffer |-> Str(Append(nb[1], char)), ok |-> TRUE]
  ELSE [heap |-> h, name_buffer |-> nb, ok |-> TRUE]

\* The inner loop moves to the next cell, the outer loop to the next row.
\* A variant whose column loop stops one column early in rows that have
\* more than one.
AdvanceSkipsLastColumn ==
  IF x + 1 < width - 1
  THEN x' = x + 1 /\ y' = y /\ pc' = "cell"
  ELSE x' = 0 /\ y' = y + 1 /\ pc' = "row"

Advance ==
  IF x + 1 < width
  THEN /\ x' = x + 1
       /\ y' = y
       /\ pc' = "cell"
  ELSE /\ x' = 0
       /\ y' = y + 1
       /\ pc' = "row"

----------------------------------------------------------------------------
(* parse as a state machine.                                               *)

Init ==
  /\ text \in Inputs
  /\ lines = splitlines(text)
  /\ cells = empty_cells(lines)
  /\ heap = <<>>
  /\ room_counter = 0
  /\ current_room = None
  /\ name_buffer = NoStr
  /\ x = 0
  /\ y = 0
  /\ ex = 0
  /\ ey = 0
  /\ seen_ids = {}
  /\ rooms = <<>>
  /\ stderr = <<>>
  /\ call = NoCall
  /\ pc = "start"
  /\ history = <<>>
  /\ argv_len = 0
  /\ file = "none"
  /\ stdout = <<>>
  /\ exit_code = 0
  /\ recursion_left = None

\* Lines 40-41: an empty grid returns at once.
ReturnEmpty ==
  /\ pc = "start"
  /\ height = 0
  /\ pc' = "done"
  /\ rooms' = <<>>
  /\ call' = NoCall
  /\ UNCHANGED <<text, lines, cells, heap, room_counter, current_room,
                 name_buffer, x, y, ex, ey, seen_ids, stderr>>
  /\ UNCHANGED callerVars

\* A variant that keeps counting where the previous call stopped.
BeginScanKeepsCounter ==
  /\ pc = "start"
  /\ height # 0
  /\ y' = 0
  /\ pc' = "row"
  /\ call' = NoCall
  /\ UNCHANGED <<text, lines, cells, heap, room_counter, current_room,
                 name_buffer, x, ex, ey, seen_ids, rooms, stderr>>
  /\ UNCHANGED callerVars

\* Line 43.
BeginScan ==
  /\ pc = "start"
  /\ height # 0
  /\ room_counter' = 0
  /\ y' = 0
  /\ pc' = "row"
  /\ call' = NoCall
  /\ UNCHANGED <<text, lines, cells, heap, current_room, name_buffer,
                 x, ex, ey, seen_ids, rooms, stderr>>
  /\ UNCHANGED callerVars

\* Lines 45-49: a row starts with no open room and no name buffer.
BeginRow ==
  /\ pc = "row"
  /\ y < height
  /\ current_room' = None
  /\ name_buffer' = NoStr
  /\ x' = 0
  /\ IF width = 0 THEN y' = y + 1 /\ pc' = "row" ELSE y' = y /\ pc' = "cell"
  /\ call' = NoCall
  /\ UNCHANGED <<text, lines, cells, heap, room_counter, ex, ey, seen_ids,
                 rooms, stderr>>
  /\ UNCHANGED callerVars

\* A variant in which a wall leaves the open room open.
ScanWallKeepsRoom ==
  /\ pc = "cell"
  /\ is_wall(lines, x, y)
  /\ name_buffer' = NoStr
  /\ Advance
  /\ call' = NoCall
  /\ UNCHANGED <<text, lines, cells, heap, room_counter, current_room, ex, ey,
                 seen_ids, rooms, stderr>>
  /\ UNCHANGED callerVars

\* A variant that stores the open room in the cell of the wall.
ScanWallStoresRoom ==
  /\ pc = "cell"
  /\ is_wall(lines, x, y)
  /\ cells' = IF current_room = None THEN cells
              ELSE set_room(cells, x, y, current_room)
  /\ current_room' = None
  /\ name_buffer' = NoStr
  /\ Advance
  /\ call' = NoCall
  /\ UNCHANGED <<text, lines, heap, room_counter, ex, ey, seen_ids,
                 rooms, stderr>>
  /\ UNCHANGED callerVars

\* A variant in which a wall leaves the name buffer as it is.
ScanWallKeepsBuffer ==
  /\ pc = "cell"
  /\ is_wall(lines, x, y)
  /\ current_room' = None
  /\ Advance
  /\ call' = NoCall
  /\ UNCHANGED <<text, lines, cells, heap, room_counter, name_buffer, ex, ey,
                 seen_ids, rooms, stderr>>
  /\ UNCHANGED callerVars

\* Lines 50-55: a wall cell.
ScanWall ==
  /\ pc = "cell"
  /\ is_wall(lines, x, y)
  /\ current_room' = None
  /\ name_buffer' = NoStr
  /\ Advance
  /\ call' = NoCall
  /\ UNCHANGED <<text, lines, cells, heap, room_counter, ex, ey, seen_ids,
                 rooms, stderr>>
  /\ UNCHANGED callerVars

\* Lines 50, 57-84: a non-wall cell.
ScanFloor ==
  /\ pc = "cell"
  /\ ~is_wall(lines, x, y)
  /\ LET char == get_char(lines, x, y)
         o == open_room(heap, room_counter, current_room)
         m == connect_above(o.heap, lines, cells, x, y, o.current_room)
         c == count_chair(m.heap, o.current_room, char)
         n == track_name(c.heap, o.current_room, name_buffer, char)
     IN /\ room_counter' = o.room_counter
        /\ current_room' = o.current_room
        /\ call' = m.call
        /\ IF ~m.ok
           THEN /\ heap' = m.heap
                /\ pc' = "error"
                /\ UNCHANGED <<cells, name_buffer, x, y>>
           ELSE /\ cells' = set_room(cells, x, y, o.current_room)
                /\ IF ~c.ok
                   THEN /\ heap' = c.heap
                        /\ pc' = "error"
                        /\ UNCHANGED <<name_buffer, x, y>>
                   ELSE /\ heap' = n.heap
                        /\ name_buffer' = n.name_buffer
                        /\ IF n.ok THEN Advance
                           ELSE pc' = "error" /\ UNCHANGED <<x, y>>
  /\ UNCHANGED <<text, lines, ex, ey, seen_ids, rooms, stderr>>
  /\ UNCHANGED callerVars

\* Line 86: the scan is over, extraction starts.
EndScan ==
  /\ pc = "row"
  /\ y >= height
  /\ pc' = "extract"
  /\ ex' = 0
  /\ ey' = 0
  /\ seen_ids' = {}
  /\ rooms' = <<>>
  /\ call' = NoCall
  /\ UNCHANGED <<text, lines, cells, heap, room_counter, current_room,
                 name_buffer, x, y, stderr>>
  /\ UNCHANGED callerVars

----------------------------------------------------------------------------
(* Grid.extract_unique_rooms, one cell of the double loop per step.        *)

RECURSIVE sum_chairs(_, _)
sum_chairs(chairs, ts) ==
  IF ts = {} THEN 0
  ELSE LET t == CHOOSE u \in ts : TRUE
       IN chairs[t] + sum_chairs(chairs, ts \ {t})

\* A variant that takes the cell's room as it is, without final().
extract_cell_no_final(h, seen, out, err, cell) ==
  IF cell = None \/ h[cell].id \in seen
  THEN [heap |-> h, seen_ids |-> seen, rooms |-> out, stderr |-> err, ok |-> TRUE]
  ELSE [heap |-> h,
        seen_ids |-> seen \cup {h[cell].id},
        rooms |-> IF h[cell].name # NoStr THEN Append(out, cell) ELSE out,
        stderr |-> err,
        ok |-> TRUE]

\* A variant that also warns about unnamed rooms without chairs.
extract_cell_warns_empty(h, seen, out, err, cell) ==
  IF cell = None
  THEN [heap |-> h, seen_ids |-> seen, rooms |-> out, stderr |-> err, ok |-> TRUE]
  ELSE LET f == final(h, cell)
           room == f.ret
           r == f.heap[room]
       IN IF r.id \in seen
          THEN [heap |-> f.heap, seen_ids |-> seen, rooms |-> out,
                stderr |-> err, ok |-> f.ok]
          ELSE [heap |-> f.heap,
                seen_ids |-> seen \cup {r.id},
                rooms |-> IF r.name # NoStr THEN Append(out, room) ELSE out,
                stderr |-> IF r.name = NoStr
                           THEN Append(err, [kind |-> "warning", id |-> r.id,
                                             total_chairs |-> sum_chairs(r.chairs, CHAIR_CHARS)])
                           ELSE err,
                ok |-> f.ok]

\* grid.py lines 122-136 for one cell.
extract_cell(h, seen, out, err, cell) ==
  IF cell = None
  THEN [heap |-> h, seen_ids |-> seen, rooms |-> out, stderr |-> err, ok |-> TRUE]
  ELSE LET f == final(h, cell)
           room == f.ret
           r == f.heap[room]
       IN IF r.id \in seen
          THEN [heap |-> f.heap, seen_ids |-> seen, rooms |-> out,
                stderr |-> err, ok |-> f.ok]
          ELSE [heap |-> f.heap,
                seen_ids |-> seen \cup {r.id},
                rooms |-> IF r.name # NoStr THEN Append(out, room) ELSE out,
                stderr |-> IF r.name = NoStr /\ sum_chairs(r.chairs, CHAIR_CHARS) > 0
                           THEN Append(err, [kind |-> "warning", id |-> r.id,
                                             total_chairs |-> sum_chairs(r.chairs, CHAIR_CHARS)])
                           ELSE err,
                ok |-> f.ok]

ExtractCell ==
  /\ pc = "extract"
  /\ ey < height
  /\ width > 0
  /\ LET e == extract_cell(heap, seen_ids, rooms, stderr, cells[ey][ex])
     IN /\ heap' = e.heap
        /\ seen_ids' = e.seen_ids
        /\ rooms' = e.rooms
        /\ stderr' = e.stderr
        /\ IF ~e.ok THEN pc' = "error" /\ UNCHANGED <<ex, ey>>
           ELSE /\ pc' = "extract"
                /\ IF ex + 1 < width THEN ex' = ex + 1 /\ ey' = ey
                   ELSE ex' = 0 /\ ey' = ey + 1
  /\ call' = NoCall
  /\ UNCHANGED <<text, lines, cells, room_counter, current_room, name_buffer,
                 x, y>>
  /\ UNCHANGED callerVars

\* grid.py line 138 and parser.py line 86: the list is returned.
Return ==
  /\ pc = "extract"
  /\ (ey >= height \/ width = 0)
  /\ pc' = "done"
  /\ call' = NoCall
  /\ UNCHANGED <<text, lines, cells, heap, room_counter, current_room,
                 name_buffer, x, y, ex, ey, seen_ids, rooms, stderr>>
  /\ UNCHANGED callerVars

Next ==
  \/ ReturnEmpty
  \/ BeginScan
  \/ BeginRow
  \/ ScanWall
  \/ ScanFloor
  \/ EndScan
  \/ ExtractCell
  \/ Return

Spec == Init /\ [][Next]_vars

----------------------------------------------------------------------------
(* The Room class on its own: merge_with on distinct roots and final, as   *)
(* tests/test_room.py calls them, on rooms whose fields were set directly. *)

RoomNames == {NoStr, Str(<<>>), Str(<<"a">>), Str(<<"b">>)}

\* The tallies of room_a and room_b in test_merge_combines_chairs.
Tallies ==
  { [W |-> 2, P |-> 0, S |-> 1, C |-> 0],
    [W |-> 1, P |-> 3, S |-> 0, C |-> 0] }

\* The first two rooms have any of the names and tallies, as room_a and
\* room_b of the unit tests; the rooms after them have no name or the name
\* a, and the tally of room_b.
RoomHeaps ==
  { h \in [1..MaxRooms -> [id : 1..MaxRooms, name : RoomNames,
                           chairs : Tallies, merged_into : {None}]] :
      \A i \in 1..MaxRooms :
        /\ h[i].id = i
        /\ i > 2 => /\ h[i].name \in {NoStr, Str(<<"a">>)}
                    /\ h[i].chairs = [W |-> 1, P |-> 3, S |-> 0, C |-> 0] }

RoomInit ==
  /\ heap \in RoomHeaps
  /\ call = NoCall
  /\ text = <<>>
  /\ lines = <<>>
  /\ cells = <<>>
  /\ room_counter = 0
  /\ current_room = None
  /\ name_buffer = NoStr
  /\ x = 0
  /\ y = 0
  /\ ex = 0
  /\ ey = 0
  /\ seen_ids = {}
  /\ rooms = <<>>
  /\ stderr = <<>>
  /\ pc = "room"
  /\ history = <<>>
  /\ argv_len = 0
  /\ file = "none"
  /\ stdout = <<>>
  /\ exit_code = 0
  /\ recursion_left = None

is_root(h, r) == h[r].merged_into = None

\* a.merge_with(b) for two distinct roots a and b.
CallMergeWith ==
  /\ pc = "room"
  /\ \E a \in DOMAIN heap, b \in DOMAIN heap :
       /\ a # b
       /\ is_root(heap, a)
       /\ is_root(heap, b)
       /\ heap' = merge_with(heap, a, b)
       /\ call' = [op |-> "merge_with", self |-> a, other |-> b, ret |-> a]
  /\ UNCHANGED parseVars
  /\ UNCHANGED callerVars

\* r.final() for any room r.
CallFinal ==
  /\ pc = "room"
  /\ \E r \in DOMAIN heap :
       LET f == final(heap, r)
       IN /\ heap' = f.heap
          /\ call' = [op |-> "final", self |-> r, other |-> None, ret |-> f.ret]
  /\ UNCHANGED parseVars
  /\ UNCHANGED callerVars

RoomNext ==
  \/ CallMergeWith
  \/ CallFinal

RoomSpec == RoomInit /\ [][RoomNext]_vars

----------------------------------------------------------------------------
(* What the floor plan itself says, computed from `lines` alone.           *)

AllCells == (0..(width - 1)) \X (0..(height - 1))

FloorCells == { c \in AllCells : ~is_wall(lines, c[1], c[2]) }

CharAt(c) == get_char(lines, c[1], c[2])

Abs(n) == IF n < 0 THEN -n ELSE n

\* Horizontally or vertically adjacent.
Adjacent(c, d) == Abs(c[1] - d[1]) + Abs(c[2] - d[2]) = 1

\* Touching at a corner only.
Diagonal(c, d) == Abs(c[1] - d[1]) = 1 /\ Abs(c[2] - d[2]) = 1

IsFloor(c) ==
  /\ c[1] >= 0
  /\ c[1] < width
  /\ c[2] >= 0
  /\ c[2] < height
  /\ ~is_wall(lines, c[1], c[2])

Neighbours(c) ==
  { d \in { <<c[1] - 1, c[2]>>, <<c[1] + 1, c[2]>>,
            <<c[1], c[2] - 1>>, <<c[1], c[2] + 1>> } : IsFloor(d) }

RECURSIVE Grow(_, _)
Grow(S, F) ==
  IF F = {} THEN S
  ELSE LET N == (UNION { Neighbours(c) : c \in F }) \ S
       IN Grow(S \cup N, N)

\* The non-wall cells joined to c by a path of adjacent non-wall cells.
Region(c) == Grow({c}, {c})

\* A complete token: "(" and the next ")" in one row with neither a wall
\* nor another parenthesis between them.
Tokens ==
  { t \in (0..(width - 1)) \X (0..(width - 1)) \X (0..(height - 1)) :
      /\ t[1] < t[2]
      /\ get_char(lines, t[1], t[3]) = "("
      /\ get_char(lines, t[2], t[3]) = ")"
      /\ \A k \in (t[1] + 1)..(t[2] - 1) :
           /\ ~is_wall(lines, k, t[3])
           /\ get_char(lines, k, t[3]) \notin {"(", ")"} }

TokenText(t) == [k \in 1..(t[2] - t[1] - 1) |-> get_char(lines, t[1] + k, t[3])]

TokensIn(R) == { t \in Tokens : <<t[1], t[3]>> \in R }

\* The room a cell was assigned, and the root it resolves to.
RoomAt(c) == cells[c[2]][c[1]]

RootAt(c) == final(heap, RoomAt(c)).ret

ScanOver == pc \in {"extract", "done"}

\* The scan has visited every cell and extraction has not started.
ScanJustOver == pc = "extract" /\ ex = 0 /\ ey = 0

Returned == { rooms[i] : i \in 1..Len(rooms) }

----------------------------------------------------------------------------
(* Claims about parse.                                                     *)

\* C1: once the whole grid is scanned, two non-wall cells resolve through
\* final() to the same root exactly when a path of horizontally or
\* vertically adjacent non-wall cells joins them.
C1_SameRootIffConnected ==
  ScanJustOver =>
    LET floor == FloorCells
    IN \A c \in floor : { d \in floor : RootAt(d) = RootAt(c) } = Region(c)

\* A finished scan with two cells touching only at a corner that stay apart,
\* and two cells of different row segments that were joined.
C1_Witness ==
  /\ pc = "done"
  /\ \E c \in FloorCells : \E d \in FloorCells :
       Diagonal(c, d) /\ d \notin Region(c) /\ RootAt(c) # RootAt(d)
  /\ \E c \in FloorCells : \E d \in FloorCells :
       RoomAt(c) # RoomAt(d) /\ d \in Region(c) /\ RootAt(c) = RootAt(d)

\* C2: every returned room counts, per chair type, the cells of its
\* connected region that hold that character; n compartments with one W
\* each over a shared named corridor give one room with W = n.
C2_ChairsOfRegion ==
  pc = "done" =>
    /\ \A c \in FloorCells :
         RootAt(c) \in Returned =>
           \A t \in CHAIR_CHARS :
             heap[RootAt(c)].chairs[t]
               = Cardinality({ d \in Region(c) : CharAt(d) = t })
    /\ \A n \in 1..MaxCompartments :
         text = Compartments(n) =>
           /\ Len(rooms) = 1
           /\ heap[rooms[1]].chairs["W"] = n

C2_Witness ==
  /\ pc = "done"
  /\ \E n \in 2..MaxCompartments : text = Compartments(n)
  /\ Len(rooms) = 1
  /\ heap[rooms[1]].chairs["W"] >= 2

\* C3: a connected region holding exactly one complete token (text) is
\* returned as a room named text, the empty token () giving the name "".
C3_SingleTokenNamesRegion ==
  pc = "done" =>
    \A c \in FloorCells :
      \A t \in TokensIn(Region(c)) :
        TokensIn(Region(c)) = {t} =>
          /\ RootAt(c) \in Returned
          /\ heap[RootAt(c)].name = Str(TokenText(t))

\* The same for regions whose single token is not empty.
C3_NonEmptyTokenNamesRegion ==
  pc = "done" =>
    \A c \in FloorCells :
      \A t \in TokensIn(Region(c)) :
        (TokensIn(Region(c)) = {t} /\ TokenText(t) # <<>>) =>
          /\ RootAt(c) \in Returned
          /\ heap[RootAt(c)].name = Str(TokenText(t))

\* C4: the returned list holds each named root that owns a cell exactly
\* once, and nothing else.
C4_ReturnedAreNamedRoots ==
  pc = "done" =>
    /\ \A i \in 1..Len(rooms) : is_root(heap, rooms[i])
    /\ \A i \in 1..Len(rooms) : \A j \in 1..Len(rooms) :
         rooms[i] = rooms[j] => i = j
    /\ Returned = { r \in DOMAIN heap :
                      /\ is_root(heap, r)
                      /\ heap[r].name # NoStr
                      /\ \E c \in FloorCells : RootAt(c) = r }

\* A result with a room named "" next to an unnamed root that holds chairs.
C4_Witness ==
  /\ pc = "done"
  /\ \E i \in 1..Len(rooms) : heap[rooms[i]].name = Str(<<>>)
  /\ \E r \in DOMAIN heap :
       is_root(heap, r) /\ heap[r].name = NoStr /\ heap[r].chairs["W"] > 0

\* C7: when the scanner unions two roots that both carry a name, the class
\* keeps the name of the root above (the survivor); the boxes (a) and (b)
\* side by side over one open row come out as one room named b with W = 2.
C7_SurvivorNameWins ==
  [][ /\ ( /\ call'.op = "merge_with"
           /\ call'.other \in DOMAIN heap
           /\ heap[call'.self].name # NoStr
           /\ heap[call'.other].name # NoStr
           /\ ~(get_char(lines, x, y) = ")" /\ name_buffer # NoStr) )
         => heap'[call'.self].name = heap[call'.self].name
      /\ (pc' = "done" /\ text = TwoNamedBoxes)
         => /\ Len(rooms') = 1
            /\ heap'[rooms'[1]].name = Str(<<"b">>)
            /\ heap'[rooms'[1]].chairs["W"] = 2 ]_vars

\* The two boxes alone: one room named b with W = 2.
C7_TwoNamedBoxes ==
  (pc = "done" /\ text = TwoNamedBoxes) =>
    /\ Len(rooms) = 1
    /\ heap[rooms[1]].name = Str(<<"b">>)
    /\ heap[rooms[1]].chairs["W"] = 2

\* Two cells of one row, each a compartment one cell wide, with nothing but
\* wall between them.
WalledApart(c, d) ==
  /\ c[2] = d[2]
  /\ c[1] + 1 < d[1]
  /\ IsFloor(c)
  /\ IsFloor(d)
  /\ \A k \in (c[1] + 1)..(d[1] - 1) : is_wall(lines, k, c[2])
  /\ ~IsFloor(<<c[1] - 1, c[2]>>)
  /\ ~IsFloor(<<d[1] + 1, d[2]>>)

\* C8 as stated: two such compartments never resolve to the same root.
C8_NeverUnify ==
  ScanJustOver =>
    \A c \in AllCells : \A d \in AllCells :
      WalledApart(c, d) => RootAt(c) # RootAt(d)

\* C8 amended: two such compartments are given two Rooms, and resolve to the
\* same root only when a path of adjacent non-wall cells joins them.
C8_UnifyOnlyByPath ==
  ScanJustOver =>
    \A c \in AllCells : \A d \in AllCells :
      WalledApart(c, d) =>
        /\ RoomAt(c) # RoomAt(d)
        /\ (RootAt(c) = RootAt(d)) => (d \in Region(c))

\* Two walled-apart compartments under one region, resolved to one root.
C8_Witness ==
  /\ ScanJustOver
  /\ \E c \in AllCells : \E d \in AllCells :
       /\ WalledApart(c, d)
       /\ IsFloor(<<c[1], c[2] - 1>>)
       /\ IsFloor(<<d[1], d[2] - 1>>)
       /\ RootAt(c) = RootAt(d)

\* The room reached from r by following k links (None past a root).
RECURSIVE Chase(_, _, _)
Chase(h, r, k) ==
  IF k = 0 \/ r = None THEN r ELSE Chase(h, h[r].merged_into, k - 1)

Acyclic(h) == \A r \in DOMAIN h : \A k \in 1..Len(h) : Chase(h, r, k) # r

----------------------------------------------------------------------------
(* Claims about the Room class.                                            *)

\* C5: a.merge_with(b) on distinct roots leaves a with the elementwise sum
\* of both tallies, and no final() call changes any tally.
C5_MergeSumsTallies ==
  [][ /\ call'.op = "merge_with" =>
           \A t \in CHAIR_CHARS :
             heap'[call'.self].chairs[t]
               = heap[call'.self].chairs[t] + heap[call'.other].chairs[t]
      /\ call'.op = "final" =>
           \A r \in DOMAIN heap : heap'[r].chairs = heap[r].chairs ]_vars

\* A final() call through a link, made after the tallies of the unit test
\* were added up.
C5_Witness ==
  /\ call.op = "final"
  /\ call.self # call.ret
  /\ heap[call.ret].chairs = [W |-> 3, P |-> 3, S |-> 1, C |-> 0]

\* C6: a.merge_with(b) gives a the name of b when a has none (None) and b
\* has one ("" included), and leaves a's name alone in every other case.
C6_NameAdoptedOnlyIfAbsent ==
  [][ call'.op = "merge_with" =>
        heap'[call'.self].name
          = IF heap[call'.self].name = NoStr /\ heap[call'.other].name # NoStr
            THEN heap[call'.other].name
            ELSE heap[call'.self].name ]_vars

\* The root of r's class: the room without link that r's links lead to.
ClassRoot(h, r) ==
  CHOOSE s \in DOMAIN h :
    h[s].merged_into = None /\ \E k \in 0..Len(h) : Chase(h, r, k) = s

\* C10: after any merge_with calls on distinct roots, final() on a room
\* returns the root of its class, on a root the root itself, and final() of
\* the result is the result.
C10_FinalIsRootAndIdempotent ==
  \A r \in DOMAIN heap :
    LET f == final(heap, r)
    IN /\ f.ok
       /\ f.ret = ClassRoot(heap, r)
       /\ heap[r].merged_into = None => f.ret = r
       /\ final(f.heap, f.ret).ret = f.ret
       /\ call.op = "final" => heap[call.ret].merged_into = None

\* final() was called on an absorbed room of a class of three.
C10_Witness ==
  /\ call.op = "final"
  /\ call.self # call.ret
  /\ \A r \in DOMAIN heap : ClassRoot(heap, r) = call.ret
  /\ Len(heap) >= 3

RECURSIVE RootFrom(_, _, _)
\* The room without link that at most k links lead to from r.
RootFrom(h, r, k) ==
  IF k = 0 \/ h[r].merged_into = None THEN r
  ELSE RootFrom(h, h[r].merged_into, k - 1)

RECURSIVE ChainFrom(_, _, _)
\* The rooms final() visits from r before it reaches the root.
ChainFrom(h, r, k) ==
  IF k = 0 \/ h[r].merged_into = None THEN {}
  ELSE {r} \cup ChainFrom(h, h[r].merged_into, k - 1)

\* C11: r.final() returns the root of r's class, and when it returns r and
\* every room visited on r's chain link straight to that root; so a chain
\* c -> b -> a resolves to a from c, from b and from a.
C11_FinalCompressesChain ==
  [][ call'.op = "final" =>
        /\ call'.ret = RootFrom(heap, call'.self, Len(heap))
        /\ heap[call'.ret].merged_into = None
        /\ heap'[call'.ret].merged_into = None
        /\ \A m \in ChainFrom(heap, call'.self, Len(heap)) :
             /\ heap'[m].merged_into = call'.ret
             /\ RootFrom(heap, m, Len(heap)) = call'.ret ]_vars

\* c.final() returned a after c was merged into b and b into a: b holds the
\* sum of two tallies, which only a root can gather.
C11_Witness ==
  /\ call.op = "final"
  /\ \E b \in DOMAIN heap :
       /\ b # call.self
       /\ b # call.ret
       /\ heap[b].chairs \notin Tallies
       /\ heap[b].merged_into = call.ret
       /\ heap[call.self].merged_into = call.ret
  /\ Len(heap) = 3

\* The texts of the runs that are followed to their end.
MaxFairSegs == 2

FairInputs ==
  UNION { { Concat(ss) : ss \in [1..n -> Segments] } : n \in 0..MaxFairSegs }
    \cup Scenarios

FairInit == Init /\ text \in FairInputs

\* parse runs to its end: a call that can take a step takes it.
FairSpec == FairInit /\ [][Next]_vars /\ WF_vars(Next)

----------------------------------------------------------------------------
(* Several parse calls in one process.  The Room objects of the earlier     *)
(* calls stay on the heap and the error stream is the same; the Grid and    *)
(* the locals of parse are new in every call.                               *)

MaxCalls == 3

MaxSessionSegs == 2

SessionInputs ==
  UNION { { Concat(ss) : ss \in [1..n -> Segments] } : n \in 0..MaxSessionSegs }

SessionInit == Init /\ text \in SessionInputs

\* What the caller sees of the list parse returned.
Snapshot ==
  [i \in 1..Len(rooms) |-> [id |-> heap[rooms[i]].id,
                            name |-> heap[rooms[i]].name,
                            chairs |-> heap[rooms[i]].chairs]]

\* parser.py line 39 of the next call: parse is called again, on a text it
\* was called on before or on another one.
ParseAgain ==
  /\ pc = "done"
  /\ argv_len = 0
  /\ Len(history) < MaxCalls - 1
  /\ history' = Append(history, [text |-> text, rooms |-> Snapshot])
  /\ text' \in { history'[k].text : k \in DOMAIN history' } \cup {TwoNamedBoxes}
  /\ lines' = splitlines(text')
  /\ cells' = empty_cells(lines')
  /\ pc' = "start"
  /\ call' = NoCall
  /\ UNCHANGED <<heap, room_counter, current_room, name_buffer, x, y, ex, ey,
                 seen_ids, rooms, stderr>>
  /\ UNCHANGED <<argv_len, file, stdout, exit_code, recursion_left>>

SessionNext ==
  \/ Next
  \/ ParseAgain

SessionSpec == SessionInit /\ [][SessionNext]_vars

----------------------------------------------------------------------------
(* parse on every short text over the characters of the (...) pattern.     *)

MaxToken == 5

TokenChars == {"(", ")", "W", "|", "\n"}

TokenInputs == UNION { [1..n -> TokenChars] : n \in 0..MaxToken }

\* The state when parse is called on one of the given texts, the
\* interpreter having room for one of the given numbers of nested calls.
ParseInitIn(texts, lefts) ==
  /\ text \in texts
  /\ lines = splitlines(text)
  /\ cells = empty_cells(lines)
  /\ heap = <<>>
  /\ room_counter = 0
  /\ current_room = None
  /\ name_buffer = NoStr
  /\ x = 0
  /\ y = 0
  /\ ex = 0
  /\ ey = 0
  /\ seen_ids = {}
  /\ rooms = <<>>
  /\ stderr = <<>>
  /\ call = NoCall
  /\ pc = "start"
  /\ history = <<>>
  /\ argv_len = 0
  /\ file = "none"
  /\ stdout = <<>>
  /\ exit_code = 0
  /\ recursion_left \in lefts

\* The state when parse is called on one of the given texts.
ParseInit(texts) == ParseInitIn(texts, {None})

TokenInit == ParseInit(TokenInputs)

TokenSpec == TokenInit /\ [][Next]_vars

----------------------------------------------------------------------------
(* parse on every short plan of blanks, walls, chairs and line ends.       *)

PlanInit == ParseInit(Plans \cup Scenarios)

PlanSpec == PlanInit /\ [][Next]_vars

----------------------------------------------------------------------------
(* parse on rows of many compartments that the row below joins, by an      *)
(* interpreter with room for few nested calls: the recursion limit and the *)
(* rows that exhaust it, scaled down together.                             *)

MaxDeep == 5

MaxFrames == 3

DeepInputs == {<<>>} \cup { Compartments(n) : n \in 1..MaxDeep }

DeepInit == ParseInitIn(DeepInputs, {None, MaxFrames})

\* A call that can take a step takes it.
DeepSpec == DeepInit /\ [][Next]_vars /\ WF_vars(Next)

----------------------------------------------------------------------------
(* src/src/formatter.py.  The output is a sequence of characters.          *)

DIGITS == <<"0", "1", "2", "3", "4", "5", "6", "7", "8", "9">>

RECURSIVE str_int(_)
\* str(n) of the f-string of line 21, for n >= 0.
str_int(n) ==
  IF n < 10 THEN <<DIGITS[n + 1]>>
  ELSE str_int(n \div 10) \o <<DIGITS[(n % 10) + 1]>>

RECURSIVE join(_, _)
\* sep.join(parts).
join(parts, sep) ==
  IF parts = <<>> THEN <<>>
  ELSE IF Len(parts) = 1 THEN parts[1]
  ELSE parts[1] \o sep \o join(Tail(parts), sep)

\* Lines 15-22.
format_chair_line(chairs) ==
  join([i \in 1..Len(CHAIR_TYPES) |->
          <<CHAIR_TYPES[i], ":", " ">> \o str_int(chairs[CHAIR_TYPES[i]])],
       <<",", " ">>)

RECURSIVE chair_totals_of_heap_from(_, _)
chair_totals_of_heap_from(h, k) ==
  IF k = 0 THEN [t \in CHAIR_CHARS |-> 0]
  ELSE LET rest == chair_totals_of_heap_from(h, k - 1)
       IN IF h[k].merged_into = None
          THEN [t \in CHAIR_CHARS |-> rest[t] + h[k].chairs[t]]
          ELSE rest

\* A variant that adds up every root there is, returned or not.
chair_totals_of_heap(h, rs) == chair_totals_of_heap_from(h, Len(h))

RECURSIVE chair_totals(_, _)
\* Lines 37-40: totals[t] += room.chairs[t] for the rooms of the list.
chair_totals(h, rs) ==
  IF rs = <<>> THEN [t \in CHAIR_CHARS |-> 0]
  ELSE LET rest == chair_totals(h, SubSeq(rs, 1, Len(rs) - 1))
           room == h[rs[Len(rs)]]
       IN [t \in CHAIR_CHARS |-> rest[t] + room.chairs[t]]

\* The code point of a character, which Python's string order compares.
ord(c) ==
  CASE c = "\n" -> 10
    [] c = " "  -> 32
    [] c = "("  -> 40
    [] c = ")"  -> 41
    [] c = "+"  -> 43
    [] c = "-"  -> 45
    [] c = "/"  -> 47
    [] c = "C"  -> 67
    [] c = "P"  -> 80
    [] c = "S"  -> 83
    [] c = "W"  -> 87
    [] c = "\\" -> 92
    [] c = "a"  -> 97
    [] c = "b"  -> 98
    [] c = "t"  -> 116
    [] c = "|"  -> 124

RECURSIVE str_le(_, _)
\* a <= b for two strings.
str_le(a, b) ==
  IF a = <<>> THEN TRUE
  ELSE IF b = <<>> THEN FALSE
  ELSE IF ord(a[1]) < ord(b[1]) THEN TRUE
  ELSE IF ord(a[1]) > ord(b[1]) THEN FALSE
  ELSE str_le(Tail(a), Tail(b))

\* Line 43: the key `r.name or ""`.
sort_key(h, r) == IF truthy(h[r].name) THEN h[r].name[1] ELSE <<>>

RECURSIVE insert_before_equal(_, _, _)
\* A variant that puts a room before the rooms of the same key.
insert_before_equal(h, sorted, r) ==
  IF sorted = <<>> THEN <<r>>
  ELSE IF str_le(sort_key(h, r), sort_key(h, sorted[1]))
       THEN <<r>> \o sorted
       ELSE <<sorted[1]>> \o insert_before_equal(h, Tail(sorted), r)

RECURSIVE insert_sorted(_, _, _)
\* One step of the stable sort of line 43: r goes after every room whose
\* key is not greater than its own.
insert_sorted(h, sorted, r) ==
  IF sorted = <<>> THEN <<r>>
  ELSE IF str_le(sort_key(h, sorted[1]), sort_key(h, r))
       THEN <<sorted[1]>> \o insert_sorted(h, Tail(sorted), r)
       ELSE <<r>> \o sorted

RECURSIVE sorted_rooms(_, _)
\* Line 43: sorted(rooms, key=lambda r: r.name or "").
sorted_rooms(h, rs) ==
  IF rs = <<>> THEN <<>>
  ELSE insert_sorted(h, sorted_rooms(h, SubSeq(rs, 1, Len(rs) - 1)), rs[Len(rs)])

\* str(room.name) of the f-string of line 51.
name_text(name) == IF name = NoStr THEN <<"N", "o", "n", "e">> ELSE name[1]

\* Lines 50-52 for one room.
room_lines(h, r) ==
  << name_text(h[r].name) \o <<":">>, format_chair_line(h[r].chairs) >>

RECURSIVE all_room_lines(_, _)
all_room_lines(h, rs) ==
  IF rs = <<>> THEN <<>>
  ELSE room_lines(h, rs[1]) \o all_room_lines(h, Tail(rs))

\* Lines 25-54.
format_output(h, rs) ==
  LET out == << <<"t", "o", "t", "a", "l", ":">>,
                format_chair_line(chair_totals(h, rs)) >>
               \o all_room_lines(h, sorted_rooms(h, rs))
  IN join(out, <<"\n">>) \o <<"\n">>

----------------------------------------------------------------------------
(* src/src/main.py: the command line.                                      *)

\* A row of six compartments: rooms b, a, "", a and ab, and one compartment
\* with a chair and no name.
NamedRow ==
  <<"(", "b", ")", "W", "|", "(", "a", ")", "|", "(", ")", "P", "|",
    "(", "a", ")", "W", "|", "W", "|", "(", "a", "b", ")", "\n">>

\* The contents of the input file.
MainInputs == Pieces \cup Scenarios \cup {NamedRow}

\* len(sys.argv): the program name and zero, one or two arguments.
ArgvLens == {1, 2, 3}

\* What open() and read() do with the file the argument names: they
\* succeed, raise FileNotFoundError, raise another OSError, or raise
\* UnicodeDecodeError, which is no OSError.
FileStates == {"ok", "missing", "unreadable", "undecodable"}

MainInit ==
  /\ argv_len \in ArgvLens
  /\ file \in FileStates
  /\ stdout = <<>>
  /\ exit_code = 0
  /\ recursion_left = None
  /\ history = <<>>
  /\ text = <<>>
  /\ lines = <<>>
  /\ cells = empty_cells(<<>>)
  /\ heap = <<>>
  /\ room_counter = 0
  /\ current_room = None
  /\ name_buffer = NoStr
  /\ x = 0
  /\ y = 0
  /\ ex = 0
  /\ ey = 0
  /\ seen_ids = {}
  /\ rooms = <<>>
  /\ stderr = <<>>
  /\ call = NoCall
  /\ pc = "main"

\* sys.exit(1) after a message on the error stream.
exit_with(kind) ==
  /\ stderr' = Append(stderr, [kind |-> kind])
  /\ exit_code' = 1
  /\ pc' = "exit"
  /\ call' = NoCall
  /\ UNCHANGED <<text, lines, cells, heap, room_counter, current_room,
                 name_buffer, x, y, ex, ey, seen_ids, rooms>>
  /\ UNCHANGED <<history, argv_len, file, stdout, recursion_left>>

\* The file is read and parse is called on its text.
read_and_parse ==
  /\ \E t \in MainInputs :
       /\ text' = t
       /\ lines' = splitlines(t)
       /\ cells' = empty_cells(splitlines(t))
  /\ pc' = "start"
  /\ call' = NoCall
  /\ UNCHANGED <<heap, room_counter, current_room, name_buffer, x, y, ex, ey,
                 seen_ids, rooms>>

\* A variant that prints the usage line and goes on.
MainUsageKeepsGoing ==
  /\ pc = "main"
  /\ argv_len # 2
  /\ stderr' = Append(stderr, [kind |-> "usage"])
  /\ read_and_parse
  /\ UNCHANGED callerVars

\* Lines 24-26.
MainUsage ==
  /\ pc = "main"
  /\ argv_len # 2
  /\ exit_with("usage")

\* Lines 31-36.
MainFileNotFound ==
  /\ pc = "main"
  /\ argv_len = 2
  /\ file = "missing"
  /\ exit_with("not_found")

\* Lines 31-33 and 37-39.
MainIOError ==
  /\ pc = "main"
  /\ argv_len = 2
  /\ file = "unreadable"
  /\ exit_with("io_error")

\* Lines 31-33 when read() raises UnicodeDecodeError: no except clause
\* catches it, the interpreter prints the traceback and exits with 1.
MainUncaught ==
  /\ pc = "main"
  /\ argv_len = 2
  /\ file = "undecodable"
  /\ exit_with("traceback")

\* Lines 28-33 and 42, and parser.py line 39.
MainRead ==
  /\ pc = "main"
  /\ argv_len = 2
  /\ file = "ok"
  /\ read_and_parse
  /\ UNCHANGED stderr
  /\ UNCHANGED callerVars

\* Lines 43-46.
MainPrint ==
  /\ pc = "done"
  /\ argv_len = 2
  /\ stdout' = stdout \o format_output(heap, rooms)
  /\ exit_code' = 0
  /\ pc' = "exit"
  /\ call' = NoCall
  /\ UNCHANGED <<text, lines, cells, heap, room_counter, current_room,
                 name_buffer, x, y, ex, ey, seen_ids, rooms, stderr>>
  /\ UNCHANGED <<history, argv_len, file, recursion_left>>

MainNext ==
  \/ MainUsage
  \/ MainFileNotFound
  \/ MainIOError
  \/ MainUncaught
  \/ MainRead
  \/ Next
  \/ MainPrint

MainSpec == MainInit /\ [][MainNext]_vars

----------------------------------------------------------------------------
(* More claims about parse.                                                *)

\* C12: during parse a room that has a link keeps having one, and a room
\* gets its link only as the `other` operand of a merge_with call.
C12_AbsorbedOnceByMerge ==
  [][ \A r \in DOMAIN heap' :
        /\ (r \in DOMAIN heap /\ heap[r].merged_into # None)
             => heap'[r].merged_into # None
        /\ ((r \notin DOMAIN heap \/ heap[r].merged_into = None)
              /\ heap'[r].merged_into # None)
             => /\ call'.op = "merge_with"
                /\ call'.other = r
                /\ call'.self # r
                /\ heap'[r].merged_into = call'.self ]_vars

\* A root that absorbed one room was absorbed itself by a later merge_with.
C12_Witness ==
  /\ call.op = "merge_with"
  /\ heap[call.other].merged_into = call.self
  /\ \E r \in DOMAIN heap : heap[r].merged_into = call.other

\* How far outside the grid get_char is probed.
Margin == 2

ProbeXs == (0 - Margin)..(width + Margin - 1)
ProbeYs == (0 - Margin)..(height + Margin - 1)

\* The character the text has at column cx of line cy, if it has one.
InText(cx, cy) ==
  /\ cy + 1 \in DOMAIN lines
  /\ cx + 1 \in DOMAIN lines[cy + 1]

\* C13: both get_char functions return the text's character at a position
\* the text has and a space at every other position, negative coordinates
\* and positions past the end of a short line included, and no such
\* position is a wall.
C13_GetCharOutOfRangeIsSpace ==
  \A cx \in ProbeXs, cy \in ProbeYs :
    /\ get_char(lines, cx, cy) = module_get_char(lines, cx, cy)
    /\ InText(cx, cy) => get_char(lines, cx, cy) = lines[cy + 1][cx + 1]
    /\ ~InText(cx, cy) => /\ get_char(lines, cx, cy) = " "
                          /\ ~is_wall(lines, cx, cy)

\* The scan read a cell past the end of a short line of a ragged text with
\* walls and gave it a room.
C13_Witness ==
  /\ pc = "cell"
  /\ x > Len(lines[y + 1])
  /\ cells[y][x - 1] # None
  /\ \E cy \in 0..(height - 1) : \E cx \in 0..(width - 1) : is_wall(lines, cx, cy)

\* The roots that own a cell of the grid.
CellRoots == { RootAt(c) : c \in { d \in AllCells : RoomAt(d) # None } }

TotalChairs(r) ==
  heap[r].chairs["W"] + heap[r].chairs["P"] + heap[r].chairs["S"] + heap[r].chairs["C"]

\* The roots extraction has to warn about.
UnnamedWithChairs ==
  { r \in CellRoots : heap[r].name = NoStr /\ TotalChairs(r) > 0 }

ChairCells == { c \in AllCells : CharAt(c) \in CHAIR_CHARS }

\* C14: when parse has returned, the error stream holds one warning for each
\* root without a name and with chairs, carrying its id and chair total, and
\* nothing else; no warned room is in the returned list; a text whose only
\* chair lies in an unnamed region gives exactly one warning.
C14_OneWarningPerUnnamedChairRoot ==
  pc = "done" =>
    /\ Len(stderr) = Cardinality(UnnamedWithChairs)
    /\ \A r \in UnnamedWithChairs :
         \E i \in 1..Len(stderr) :
           stderr[i] = [kind |-> "warning", id |-> heap[r].id,
                        total_chairs |-> TotalChairs(r)]
    /\ \A i \in 1..Len(stderr) :
         \E r \in UnnamedWithChairs : stderr[i].id = heap[r].id
    /\ \A i \in 1..Len(rooms) : rooms[i] \notin UnnamedWithChairs
    /\ \A c \in ChairCells :
         (ChairCells = {c} /\ heap[RootAt(c)].name = NoStr)
           => /\ Len(stderr) = 1
              /\ stderr[1].total_chairs = 1

\* One warning was written for a root that owns several cells, and an
\* unnamed root without chairs got none.
C14_Witness ==
  /\ pc = "done"
  /\ Len(stderr) = 1
  /\ \E r \in CellRoots : heap[r].name = NoStr /\ TotalChairs(r) = 0
  /\ \E c, d \in AllCells :
       c # d /\ RoomAt(c) # None /\ RoomAt(d) # None
       /\ RootAt(c) = RootAt(d) /\ RootAt(c) \in UnnamedWithChairs

\* The text has no character other than line ends.
OnlyLineEnds == \A i \in DOMAIN text : text[i] = "\n"

\* C15: the grid has zero height or zero width exactly when the text is
\* empty or made of line ends only, and then parse creates no room, writes
\* no warning and returns the empty list.
C15_EmptyGridGivesNothing ==
  /\ OnlyLineEnds <=> (height = 0 \/ width = 0)
  /\ OnlyLineEnds =>
       /\ heap = <<>>
       /\ stderr = <<>>
       /\ room_counter = 0
       /\ pc \notin {"cell", "error"}
       /\ pc = "done" => rooms = <<>>

\* parse returned for a text of two empty lines.
C15_Witness ==
  /\ pc = "done"
  /\ Len(text) = 2
  /\ OnlyLineEnds
  /\ height = 2
  /\ width = 0

\* The row-major rank of the scan position.
ScanIndex == y * width + x

\* C16: the scan starts at rank 0, every step at a cell reads the cell of
\* the current rank and raises the rank by one, the scan ends at rank
\* height * width, parse never fails and it always returns.
C16_ScansRowMajorAndReturns ==
  /\ [](pc # "error")
  /\ [](pc = "cell" => (x \in 0..(width - 1) /\ y \in 0..(height - 1)))
  /\ [][ /\ (pc = "start" /\ pc' = "row") => ScanIndex' = 0
         /\ pc = "cell" => ScanIndex' = ScanIndex + 1
         /\ (pc = "row" /\ pc' \in {"row", "cell"} /\ width > 0)
              => ScanIndex' = ScanIndex
         /\ (pc = "row" /\ pc' = "extract") => ScanIndex = height * width ]_vars
  /\ <>(pc = "done")

\* parse returned after a scan of a ragged grid of several rows.
C16_Witness ==
  /\ pc = "done"
  /\ height >= 2
  /\ width >= 3
  /\ \E cy \in 1..height : Len(lines[cy]) < width
  /\ \A c \in AllCells : IsFloor(c) => RoomAt(c) # None

\* The rooms the cells of the current grid refer to.
CellRooms == { RoomAt(c) : c \in { d \in AllCells : RoomAt(d) # None } }

\* C17: two parse calls of one process on the same text return lists with
\* the same ids, names and tallies in the same order, whatever was parsed
\* in between, and the rooms a call creates are numbered from 1.
C17_SameTextSameResult ==
  /\ \A i, j \in DOMAIN history :
       history[i].text = history[j].text => history[i].rooms = history[j].rooms
  /\ pc = "done" =>
       \A i \in DOMAIN history :
         history[i].text = text => history[i].rooms = Snapshot
  /\ (pc \in {"row", "cell", "extract", "done"} /\ height > 0) =>
       /\ Cardinality(CellRooms) = room_counter
       /\ { heap[r].id : r \in CellRooms } = 1..room_counter

\* The third call returned rooms for the text of the first call, after a
\* second call on another text had created rooms of its own.
C17_Witness ==
  /\ pc = "done"
  /\ Len(history) = 2
  /\ history[1].text = text
  /\ history[2].text # text
  /\ history[2].rooms # <<>>
  /\ rooms # <<>>
  /\ Len(heap) > room_counter

----------------------------------------------------------------------------
(* Claims about the output and the command line.                           *)

\* main has printed and is over.
Printed == pc = "exit" /\ exit_code = 0

OutLines == splitlines(stdout)

\* The chairs of type t in the regions whose root has a name.
NamedChairCells(t) ==
  { c \in AllCells :
      CharAt(c) = t /\ RoomAt(c) # None /\ heap[RootAt(c)].name # NoStr }

\* The sum of the tallies of the returned rooms for type t.
RECURSIVE SumOfRooms(_, _)
SumOfRooms(t, k) ==
  IF k = 0 THEN 0 ELSE SumOfRooms(t, k - 1) + heap[rooms[k]].chairs[t]

ChairLine(w, p, s, c) ==
  <<"W", ":", " ">> \o str_int(w) \o <<",", " ", "P", ":", " ">> \o str_int(p)
    \o <<",", " ", "S", ":", " ">> \o str_int(s)
    \o <<",", " ", "C", ":", " ">> \o str_int(c)

\* C18: the first two lines of the output are "total:" and the chair line
\* of the sums, in the order W, P, S, C, of the tallies of the returned
\* rooms, which count the chairs of the named regions and no others.
C18_TotalIsSumOfGivenRooms ==
  Printed =>
    /\ Len(OutLines) >= 2
    /\ OutLines[1] = <<"t", "o", "t", "a", "l", ":">>
    /\ OutLines[2] = ChairLine(SumOfRooms("W", Len(rooms)), SumOfRooms("P", Len(rooms)),
                               SumOfRooms("S", Len(rooms)), SumOfRooms("C", Len(rooms)))
    /\ \A t \in CHAIR_CHARS :
         SumOfRooms(t, Len(rooms)) = Cardinality(NamedChairCells(t))

\* The output was printed for several rooms with chairs while a chair of an
\* unnamed region was left out.
C18_Witness ==
  /\ Printed
  /\ Len(rooms) >= 2
  /\ SumOfRooms("W", Len(rooms)) >= 2
  /\ SumOfRooms("P", Len(rooms)) >= 1
  /\ \E i \in 1..Len(stderr) : stderr[i].kind = "warning"
  /\ \E c \in AllCells : CharAt(c) = "W" /\ c \notin NamedChairCells("W")

\* The name of a returned room as a string.
NameOf(r) == IF heap[r].name = NoStr THEN <<>> ELSE heap[r].name[1]

\* The orders of the n rooms of the list: each room once.
Orders(n) == { p \in [1..n -> 1..n] : \A i, j \in 1..n : p[i] = p[j] => i = j }

\* p lists the rooms by ascending name, rooms of one name in input order.
StableByName(p) ==
  \A i \in 1..(Len(rooms) - 1) :
    LET a == NameOf(rooms[p[i]])
        b == NameOf(rooms[p[i + 1]])
    IN /\ str_le(a, b)
       /\ a = b => p[i] < p[i + 1]

\* C19: after the two total lines the output has two lines for every given
\* room, each room once, ordered by ascending name with the empty name
\* first and rooms of the same name in the order of the given list.
C19_RoomsSortedByNameStable ==
  Printed =>
    /\ Len(OutLines) = 2 + 2 * Len(rooms)
    /\ \E p \in Orders(Len(rooms)) :
         /\ StableByName(p)
         /\ \A i \in 1..Len(rooms) :
              /\ OutLines[2 * i + 1] = NameOf(rooms[p[i]]) \o <<":">>
              /\ OutLines[2 * i + 2] =
                   ChairLine(heap[rooms[p[i]]].chairs["W"], heap[rooms[p[i]]].chairs["P"],
                             heap[rooms[p[i]]].chairs["S"], heap[rooms[p[i]]].chairs["C"])

\* The output was printed for a list that is not in name order, has a room
\* with the empty name after the first place and two rooms of one name with
\* different tallies.
C19_Witness ==
  /\ Printed
  /\ \E i, j \in 1..Len(rooms) :
       /\ i < j
       /\ NameOf(rooms[i]) = NameOf(rooms[j])
       /\ heap[rooms[i]].chairs # heap[rooms[j]].chairs
  /\ \E i \in 2..Len(rooms) : NameOf(rooms[i]) = <<>>
  /\ \E i \in 1..(Len(rooms) - 1) :
       ~str_le(NameOf(rooms[i]), NameOf(rooms[i + 1]))

\* The command line or the file keeps main from its work.
BadInvocation == argv_len # 2 \/ file # "ok"

\* C20: with a wrong number of arguments or a file that cannot be read
\* main never calls parse and writes nothing to standard output, it can
\* always go on to its exit, and it exits with a non-zero status and one
\* message on the error stream; standard output is written only by a run
\* that read its file, and then it is the formatted output.
C20_ErrorsExitWithoutOutput ==
  /\ BadInvocation =>
       /\ pc \in {"main", "exit"}
       /\ text = <<>> /\ heap = <<>> /\ rooms = <<>>
       /\ stdout = <<>>
       /\ pc = "main" => /\ stderr = <<>>
                         /\ ENABLED (MainUsage \/ MainFileNotFound
                                       \/ MainIOError \/ MainUncaught)
       /\ pc = "exit" => /\ exit_code # 0
                         /\ Len(stderr) = 1
                         /\ stderr[1].kind \in {"usage", "not_found",
                                                "io_error", "traceback"}
  /\ stdout # <<>> =>
       /\ ~BadInvocation
       /\ Printed
       /\ stdout = format_output(heap, rooms)
  /\ (~BadInvocation /\ pc = "exit") => (exit_code = 0 /\ stdout # <<>>)

\* main exited with status 1 because the one file it was given could not be
\* read.
C20_Witness ==
  /\ pc = "exit"
  /\ argv_len = 2
  /\ file = "unreadable"
  /\ exit_code = 1
  /\ stderr = <<[kind |-> "io_error"]>>
  /\ stdout = <<>>

----------------------------------------------------------------------------
(* Claims about the (...) pattern.                                         *)

CharXY(cx, cy) == get_char(lines, cx, cy)

\* A "(" of row cy before column cx is followed up to cx by no wall and no
\* ")": a name is being captured when the scan is at (cx, cy).
ActiveCapture(cx, cy) ==
  \E k \in 0..(cx - 1) :
    /\ CharXY(k, cy) = "("
    /\ \A j \in (k + 1)..(cx - 1) :
         CharXY(j, cy) \notin WALL_CHARS \cup {")"}

\* The column of the last "(" of row cy before column cx.
CaptureStart(cx, cy) ==
  CHOOSE k \in 0..(cx - 1) :
    /\ CharXY(k, cy) = "("
    /\ \A j \in (k + 1)..(cx - 1) : CharXY(j, cy) # "("

\* The characters of row cy between that "(" and column cx.
Captured(cx, cy) ==
  [i \in 1..(cx - 1 - CaptureStart(cx, cy)) |->
     CharXY(CaptureStart(cx, cy) + i, cy)]

OldName(r) == IF r \in DOMAIN heap THEN heap[r].name ELSE NoStr

\* The step gives some room a name that no merge_with of the step gave it.
NameAssigned ==
  \E r \in DOMAIN heap' :
    /\ heap'[r].name # OldName(r)
    /\ ~ /\ call'.op = "merge_with"
         /\ r = call'.self
         /\ heap'[r].name = OldName(call'.other)

\* C21: a wall cell and the start of a row leave no open room and no name
\* buffer, so the buffer is active exactly when a "(" of the same row is
\* followed by no wall and no ")" up to the scan position, and a name is
\* assigned only by a ")" at such a position.
C21_WallAndRowStartResetCapture ==
  /\ [](pc = "cell" => (name_buffer # NoStr <=> ActiveCapture(x, y)))
  /\ [][ /\ (pc = "cell" /\ is_wall(lines, x, y))
              => (current_room' = None /\ name_buffer' = NoStr)
         /\ (pc = "row" /\ pc' \in {"row", "cell"})
              => (current_room' = None /\ name_buffer' = NoStr)
         /\ NameAssigned
              => (pc = "cell" /\ CharXY(x, y) = ")" /\ ActiveCapture(x, y)) ]_vars

\* The scan has finished a row that has "(", then a wall, then ")", and no
\* room has a name.
C21_Witness ==
  /\ pc = "row"
  /\ y >= 1
  /\ \E i, j, k \in 0..(width - 1) :
       /\ i < j /\ j < k
       /\ CharXY(i, y - 1) = "("
       /\ is_wall(lines, j, y - 1)
       /\ CharXY(k, y - 1) = ")"
  /\ heap # <<>>
  /\ \A r \in DOMAIN heap : heap[r].name = NoStr

\* C22: the name buffer holds the characters scanned since the last "(",
\* and the step at a ")" that closes a capture leaves the root of the
\* current room with exactly these characters as its name.
C22_ClosingParenAssignsCapture ==
  /\ []((pc = "cell" /\ name_buffer # NoStr)
          => name_buffer = Str(Captured(x, y)))
  /\ [][ (pc = "cell" /\ CharXY(x, y) = ")" /\ ActiveCapture(x, y))
           => /\ pc' # "error"
              /\ heap'[RootFrom(heap', current_room', Len(heap'))].name
                   = Str(Captured(x, y)) ]_vars

\* The scan has finished a row without walls that ends with a second
\* complete token, other than the first, and the root has the second as
\* its name.
C22_Witness ==
  /\ pc = "row"
  /\ y >= 1
  /\ current_room # None
  /\ \A j \in 0..(width - 1) : ~is_wall(lines, j, y - 1)
  /\ CharXY(width - 1, y - 1) = ")"
  /\ ActiveCapture(width - 1, y - 1)
  /\ \E k \in 0..(width - 2) :
       /\ CharXY(k, y - 1) = ")"
       /\ ActiveCapture(k, y - 1)
       /\ Captured(k, y - 1) # Captured(width - 1, y - 1)
  /\ heap[RootFrom(heap, current_room, Len(heap))].name
       = Str(Captured(width - 1, y - 1))

----------------------------------------------------------------------------
(* Claims about what parse does to the rooms.                              *)

\* r had no link before the step; a room the step created had none.
WasRoot(r) == r \notin DOMAIN heap \/ heap[r].merged_into = None

\* C23: the two operands of every merge_with call of parse are different
\* rooms without link when the call is made, and self has none after it.
C23_MergeOperandsAreDistinctRoots ==
  [][ call'.op = "merge_with" =>
        /\ call'.self # call'.other
        /\ call'.self \in DOMAIN heap
        /\ WasRoot(call'.self)
        /\ WasRoot(call'.other)
        /\ heap'[call'.self].merged_into = None
        /\ RootFrom(heap', call'.other, Len(heap')) = call'.self ]_vars

\* parse merged the root above into which the current room had been merged
\* before, not the current room itself, with the root of another cell above.
C23_Witness ==
  /\ pc \in {"cell", "row"}
  /\ call.op = "merge_with"
  /\ current_room # None
  /\ call.other # current_room
  /\ heap[current_room].merged_into # None
  /\ RootFrom(heap, current_room, Len(heap)) = call.self

OldChairs(r) ==
  IF r \in DOMAIN heap THEN heap[r].chairs ELSE [t \in CHAIR_CHARS |-> 0]

\* C24: a step of parse leaves the chairs and the name of every room that
\* has a link as they are; a room whose chairs or name it changes has no
\* link before and none after the step; the rooms extraction returns or
\* warns about have none.
C24_OnlyRootsChange ==
  [][ /\ \A r \in DOMAIN heap' :
           (heap'[r].chairs # OldChairs(r) \/ heap'[r].name # OldName(r))
             => (WasRoot(r) /\ heap'[r].merged_into = None)
      /\ pc = "extract" =>
           /\ \A i \in 1..Len(rooms') : heap'[rooms'[i]].merged_into = None
           /\ \A i \in 1..Len(stderr') :
                \E r \in DOMAIN heap' :
                  /\ heap'[r].merged_into = None
                  /\ heap'[r].id = stderr'[i].id
                  /\ heap'[r].name = NoStr ]_vars

\* The scan has named a root through a current room that has a link, and
\* has counted a chair on a root through such a room.
C24_Witness ==
  /\ pc \in {"cell", "row"}
  /\ current_room # None
  /\ heap[current_room].merged_into # None
  /\ heap[current_room].name = NoStr
  /\ heap[current_room].chairs = [t \in CHAIR_CHARS |-> 0]
  /\ heap[heap[current_room].merged_into].merged_into = None
  /\ heap[heap[current_room].merged_into].name # NoStr
  /\ \E cx \in 0..(width - 1) :
       /\ y < height
       /\ RoomAt(<<cx, y>>) = current_room
       /\ CharXY(cx, y) \in CHAIR_CHARS
  /\ \E cx \in 0..(width - 1) :
       /\ y < height
       /\ RoomAt(<<cx, y>>) = current_room
       /\ CharXY(cx, y) = ")"

----------------------------------------------------------------------------
(* Frames of the Room methods.                                             *)

\* C25: a final() call leaves every room's chairs, name and id as they are,
\* changes merged_into only on rooms with a link on the chain it follows,
\* and leaves every room with the root it had.
C25_FinalFrame ==
  [][ call'.op = "final" =>
        /\ DOMAIN heap' = DOMAIN heap
        /\ \A m \in DOMAIN heap :
             /\ heap'[m].chairs = heap[m].chairs
             /\ heap'[m].name = heap[m].name
             /\ heap'[m].id = heap[m].id
             /\ heap'[m].merged_into # heap[m].merged_into
                  => m \in ChainFrom(heap, call'.self, Len(heap))
             /\ RootFrom(heap', m, Len(heap)) = RootFrom(heap, m, Len(heap)) ]_vars

\* final() has followed a link while another room keeps a link to a room
\* that is not the root returned.
C25_Witness ==
  /\ call.op = "final"
  /\ call.self # call.ret
  /\ \E m \in DOMAIN heap :
       /\ heap[m].merged_into # None
       /\ heap[m].merged_into # call.ret
       /\ heap[m].name # NoStr

\* C26: a.merge_with(b) on distinct roots returns a, links b to a, leaves a
\* without link, leaves b's chairs and name and b's and a's id as they
\* were, and changes no third room.
C26_MergeFrame ==
  [][ call'.op = "merge_with" =>
        /\ call'.ret = call'.self
        /\ DOMAIN heap' = DOMAIN heap
        /\ heap'[call'.other].merged_into = call'.self
        /\ heap'[call'.self].merged_into = None
        /\ heap'[call'.other].chairs = heap[call'.other].chairs
        /\ heap'[call'.other].name = heap[call'.other].name
        /\ heap'[call'.other].id = heap[call'.other].id
        /\ heap'[call'.self].id = heap[call'.self].id
        /\ \A r \in DOMAIN heap \ {call'.self, call'.other} :
             heap'[r] = heap[r] ]_vars

\* merge_with was called on a named room with chairs as `other` while a
\* third room had its own link.
C26_Witness ==
  /\ call.op = "merge_with"
  /\ heap[call.other].name # NoStr
  /\ heap[call.other].chairs \in Tallies
  /\ \E r \in DOMAIN heap \ {call.self, call.other} :
       heap[r].merged_into # None

----------------------------------------------------------------------------
(* Claims about the rooms of the row runs and the cell map.                *)

\* The scan has processed cell c.
Scanned(c) ==
  \/ pc \in {"extract", "done"}
  \/ /\ pc \in {"cell", "row"}
     /\ (c[2] < y \/ (c[2] = y /\ c[1] < x))

\* c is the first cell of a maximal run of non-wall cells of its row.
RunStart(c) == IsFloor(c) /\ ~IsFloor(<<c[1] - 1, c[2]>>)

\* The number, in row-major order, of the run of the non-wall cell c.
RunNumber(c) ==
  Cardinality({ d \in AllCells :
                  /\ RunStart(d)
                  /\ (d[2] < c[2] \/ (d[2] = c[2] /\ d[1] <= c[1])) })

\* C27: at every point of the scan there is one Room for every run of
\* non-wall cells that the scan has entered, the Room of a run is the one
\* created when the scan entered it, the k-th Room created has id k, and a
\* new Room has id room_counter + 1, no name, no chairs and no link.
C27_OneRoomPerRun ==
  (pc \in {"row", "cell", "extract", "done"} /\ height > 0) =>
    /\ Len(heap) = Cardinality({ d \in AllCells : RunStart(d) /\ Scanned(d) })
    /\ room_counter = Len(heap)
    /\ \A k \in DOMAIN heap : heap[k].id = k
    /\ \A d \in AllCells :
         (RunStart(d) /\ Scanned(d)) => RoomAt(d) = RunNumber(d)
    /\ LET o == open_room(heap, room_counter, None)
       IN /\ o.current_room = Len(heap) + 1
          /\ o.heap[o.current_room]
               = [id |-> room_counter + 1, name |-> NoStr,
                  chairs |-> [t \in CHAIR_CHARS |-> 0], merged_into |-> None]

\* parse returned for a grid with two runs in one row, a run of several
\* cells and a run made of the padding of a short line.
C27_Witness ==
  /\ pc = "done"
  /\ Len(heap) >= 3
  /\ \E c, d \in AllCells :
       /\ c[2] = d[2] /\ c # d /\ RunStart(c) /\ RunStart(d)
       /\ IsFloor(<<c[1] + 1, c[2]>>)
  /\ \E c \in AllCells : RunStart(c) /\ c[1] >= Len(lines[c[2] + 1])

\* C28: at every point of the scan the cell map holds, for every non-wall
\* cell already scanned, the Room of the cell's run, and None for every
\* wall cell and every cell not scanned yet; what a cell holds is fixed by
\* the text, so an entry never changes once it is written.
C28_CellMapHoldsRunRooms ==
  \A c \in AllCells :
    RoomAt(c) = IF Scanned(c) /\ IsFloor(c) THEN RunNumber(c) ELSE None

\* In the middle of the scan the map holds a room with a link for a cell of
\* the padding, None for a scanned wall cell and None for a non-wall cell not
\* scanned yet.
C28_Witness ==
  /\ pc = "cell"
  /\ \E c \in AllCells :
       /\ RoomAt(c) # None
       /\ heap[RoomAt(c)].merged_into # None
       /\ c[1] >= Len(lines[c[2] + 1])
  /\ \E c \in AllCells : Scanned(c) /\ ~IsFloor(c) /\ RoomAt(c) = None
  /\ \E c \in AllCells : ~Scanned(c) /\ IsFloor(c) /\ RoomAt(c) = None

\* The root of the room of cell c.
RootOfCell(c) == RootFrom(heap, RoomAt(c), Len(heap))

\* C30: at every point of the scan and after it, two non-wall cells already
\* scanned that are neighbours in a row or in a column have the same root.
C30_ScannedNeighboursShareRoot ==
  \A c \in AllCells :
    (Scanned(c) /\ IsFloor(c)) =>
      \A d \in { <<c[1] + 1, c[2]>>, <<c[1], c[2] + 1>> } :
        (IsFloor(d) /\ Scanned(d)) => RootOfCell(c) = RootOfCell(d)

\* In the middle of the scan two cells, one above the other, hold different
\* rooms with the same root, while a cell is still to come.
C30_Witness ==
  /\ pc = "cell"
  /\ \E c \in AllCells :
       LET d == <<c[1], c[2] + 1>>
       IN /\ IsFloor(c) /\ IsFloor(d) /\ Scanned(d)
          /\ RoomAt(c) # RoomAt(d)
          /\ RootOfCell(c) = RootOfCell(d)
  /\ \E c \in AllCells : IsFloor(c) /\ ~Scanned(c)

----------------------------------------------------------------------------
\* The links a final() call on room r of heap h follows.
LinksFollowed(h, r) == Cardinality(ChainFrom(h, r, Len(h)))

\* The links followed by each final() call of the scan step about to be
\* taken: on the room above and then on the current room (parser.py lines
\* 64-65), or on the current room alone (lines 75 and 80).
ScanLinks ==
  IF pc = "cell" /\ ~is_wall(lines, x, y)
  THEN LET char == get_char(lines, x, y)
           o == open_room(heap, room_counter, current_room)
           room_above == get_connected_room_above(lines, cells, x, y)
           fa == final(o.heap, room_above)
       IN IF room_above # None
          THEN {LinksFollowed(o.heap, room_above)}
                 \cup IF fa.ok
                      THEN {LinksFollowed(fa.heap, o.current_room)}
                      ELSE {}
          ELSE IF char \in CHAIR_CHARS \/ (char = ")" /\ name_buffer # NoStr)
          THEN {LinksFollowed(o.heap, o.current_room)}
          ELSE {}
  ELSE {}

\* The links followed by the final() call of the extraction step about to
\* be taken (grid.py line 123).
ExtractLinks ==
  IF pc = "extract" /\ ey < height /\ width > 0 /\ cells[ey][ex] # None
  THEN {LinksFollowed(heap, cells[ey][ex])}
  ELSE {}

\* The links one final() call follows on a plan of two compartments.
ChainBound == 2

RoomsByThen ==
  IF pc = "cell" /\ ~is_wall(lines, x, y)
  THEN open_room(heap, room_counter, current_room).room_counter
  ELSE room_counter

----------------------------------------------------------------------------
RECURSIVE RootChairs(_, _, _, _)
\* The chairs of type t on the rooms among the first k of heap h that have
\* no link and whose name is among the given ones.
RootChairs(h, t, k, names) ==
  IF k = 0 THEN 0
  ELSE RootChairs(h, t, k - 1, names)
         + IF h[k].merged_into = None /\ names[h[k].name]
           THEN h[k].chairs[t] ELSE 0

\* Every name, and the absent name alone.
AnyName == [n \in {heap[r].name : r \in DOMAIN heap} |-> TRUE]

NoName == [n \in {heap[r].name : r \in DOMAIN heap} |-> n = NoStr]

\* The scanned cells that hold t, and all the cells that hold t.
ScannedChairs(t) ==
  Cardinality({ c \in AllCells : Scanned(c) /\ CharAt(c) = t })

GridChairs(t) == Cardinality({ c \in AllCells : CharAt(c) = t })

\* C31: at every point of the scan and of the extraction the tallies of
\* type t of the rooms without link add up to the number of scanned cells
\* that hold t, and when parse has returned the tallies of the returned
\* rooms and of the roots without name add up to the cells that hold t.
C31_ChairsConserved ==
  \A t \in CHAIR_CHARS :
    /\ pc \in {"row", "cell", "extract", "done"} =>
         RootChairs(heap, t, Len(heap), AnyName) = ScannedChairs(t)
    /\ pc = "done" =>
         SumOfRooms(t, Len(rooms)) + RootChairs(heap, t, Len(heap), NoName)
           = GridChairs(t)

\* parse has returned; a root without name holds three chairs, one of them
\* taken over from a room it absorbed, and these are the chairs of the grid.
C31_Witness ==
  /\ pc = "done"
  /\ GridChairs("W") = 3
  /\ \E r \in DOMAIN heap :
       /\ heap[r].merged_into = None
       /\ heap[r].name = NoStr
       /\ heap[r].chairs["W"] = 3
       /\ \E o \in DOMAIN heap :
            heap[o].merged_into = r /\ heap[o].chairs["W"] = 1

----------------------------------------------------------------------------
\* The tally of type t that the root of the current room starts the step
\* with: its own, or with a merge_with in the step that of both operands.
TallyBefore(t) ==
  IF call'.op = "merge_with"
  THEN OldChairs(call'.self)[t] + OldChairs(call'.other)[t]
  ELSE heap[RootFrom(heap, current_room, Len(heap))].chairs[t]

\* C32: the step at a chair cell inside a name capture appends the
\* character to the name buffer and adds one to the tally of that type of
\* the current room's root; the captured name holds the chair characters.
C32_ChairInCaptureCountsAndNames ==
  [][ (pc = "cell" /\ name_buffer # NoStr /\ CharXY(x, y) \in CHAIR_CHARS)
        => /\ pc' # "error"
           /\ current_room' = current_room
           /\ name_buffer' = Str(Append(name_buffer[1], CharXY(x, y)))
           /\ \A t \in CHAIR_CHARS :
                heap'[RootFrom(heap', current_room', Len(heap'))].chairs[t]
                  = TallyBefore(t) + IF t = CharXY(x, y) THEN 1 ELSE 0 ]_vars

\* parse has returned a room whose name is the chair character of its one
\* chair cell, which stands between the parentheses.
C32_Witness ==
  /\ pc = "done"
  /\ Len(rooms) = 1
  /\ heap[rooms[1]].name = Str(<<"W">>)
  /\ heap[rooms[1]].chairs["W"] = 1
  /\ GridChairs("W") = 1

----------------------------------------------------------------------------
\* C33: the step at a "(" inside a name capture leaves an empty buffer and
\* assigns no name, and the step at a ")" outside a capture leaves the
\* buffer absent and assigns no name.
C33_ParenRestartsAndStrayCloseIgnored ==
  [][ /\ (pc = "cell" /\ CharXY(x, y) = "(" /\ name_buffer # NoStr)
           => /\ pc' # "error"
              /\ name_buffer' = Str(<<>>)
              /\ ~NameAssigned
      /\ (pc = "cell" /\ CharXY(x, y) = ")" /\ name_buffer = NoStr)
           => /\ pc' # "error"
              /\ name_buffer' = NoStr
              /\ ~NameAssigned ]_vars

\* parse has returned the room of the row (W(W), named W: the W before the
\* second "(" is counted and is not part of the name.
C33_Witness ==
  /\ pc = "done"
  /\ height = 1
  /\ CharXY(0, 0) = "("
  /\ CharXY(2, 0) = "("
  /\ Len(rooms) = 1
  /\ heap[rooms[1]].name = Str(<<"W">>)
  /\ heap[rooms[1]].chairs["W"] = 2

====
